---- MODULE Spec2Model ----
(***************************************************************************)
(* State-machine model of the lsh-rs index coordinator (lsh/lsh.rs), its   *)
(* hash families (hash.rs) and the multi-probe generator (multi_probe.rs). *)
(*                                                                         *)
(* Numbers.  The program computes on f32.  Here a real number x is the     *)
(* integer Rnd(x * Scale): fixed point with Scale steps per unit.  Input   *)
(* vectors have integer components, so a vector v enters a hasher as       *)
(* v * Scale.  Matrix entries ("standard normal" samples) are small        *)
(* integers drawn from a seeded generator.                                 *)
(***************************************************************************)
EXTENDS Integers, Sequences, FiniteSets, TLC

VARIABLES
    lsh,      \* the coordinator: the fields of struct LSH
    fault,    \* environment: tables whose backend operations fail with an I/O error
    call,     \* a batch call in progress (store_vecs, store_array, the parallel query)
    ret,      \* outcome of the last finished call
    file,     \* the blob written by dump
    hist,     \* history used to state the claims (never read by an action's guard)
    db        \* environment: the hashers a database written by an earlier run holds

vars == <<lsh, fault, call, ret, file, hist, db>>

---------------------------------------------------------------------------
(* Bounds of the model *)

\* n_hash_tables handed to LSH::new
L == 2
\* n_projections handed to LSH::new
K == 2
\* dim handed to LSH::new
Dim == 2
\* seeds handed to seed(): 0..MaxSeed
MaxSeed == 1
\* fixed-point steps per unit
Scale == 4
\* at most this many ids are allocated
MaxStored == 2
\* longest batch handed to store_vecs / store_array / the batch queries
MaxBatch == 2
\* largest multi-probe budget handed to multi_probe()
MaxBudget == 2
\* at most this many update_by_idx calls
MaxUpdates == 1

\* dump calls in a behaviour
MaxDumps == 1
\* longest hash handed to the multi-probe generator on its own
MaxHashLen == 4
\* largest budget handed to step_wise_probing on its own
MaxProbeBudget == 20

\* components of the input vectors
Vals == {-1, 1}

\* vectors of the index's dimension
GoodVecs == [1..Dim -> Vals]

\* a vector of a wrong dimension
BadVecs == {[i \in 1..(Dim + 1) |-> 1]}

Vectors == GoodVecs \cup BadVecs

\* slot width r handed to l2() and mips(), in fixed point (r = 2.0)
RParam == 2 * Scale
\* U handed to mips() is UNum / UDen = 0.75
UNum == 3
UDen == 4
\* m handed to mips()
MParam == 1

---------------------------------------------------------------------------
(* Arithmetic helpers *)

Abs(x) == IF x < 0 THEN -x ELSE x

\* a / b rounded to the nearest integer (b > 0), symmetric around 0
Rnd(a, b) == IF a >= 0 THEN (2 * a + b) \div (2 * b) ELSE -((2 * (-a) + b) \div (2 * b))

\* floor of the square root
Isqrt(n) == CHOOSE r \in 0..n : r * r <= n /\ (r + 1) * (r + 1) > n

RECURSIVE SumSq(_)
SumSq(x) == IF x = <<>> THEN 0 ELSE Head(x) * Head(x) + SumSq(Tail(x))

RECURSIVE Pow(_, _)
Pow(b, e) == IF e = 0 THEN 1 ELSE b * Pow(b, e - 1)

\* dist::l2_norm of a fixed-point vector, in fixed point
l2_norm(xs) == Isqrt(SumSq(xs))

\* an integer vector as a fixed-point vector
ToFixed(v) == [i \in 1..Len(v) |-> v[i] * Scale]

\* `x as i8`: a saturating cast
AsHashPrimitive(x) == IF x > 127 THEN 127 ELSE IF x < -128 THEN -128 ELSE x

---------------------------------------------------------------------------
(* Seeded sampling: utils::create_rng and the distributions *)

\* the i-th raw draw of the generator seeded with s
RawDraw(s, i) == ((s * 7 + 3) * (i + 2) + i * i + s) % 11

\* the i-th StandardNormal sample: a small integer
NormalDraw(s, i) == (RawDraw(s, i) % 5) - 2

\* the i-th Uniform(0, r) sample, in fixed point (r in fixed point)
UniformDraw(s, i, r) == RawDraw(s, i + 1) % r

\* the stream a generator created with create_rng(seed) may produce:
\* seed 0 is seeded from the OS, any other seed is deterministic
create_rng(seed) == IF seed = 0 THEN 1..MaxSeed ELSE {seed}

\* rng.gen(): the seed handed to the t-th hasher (t from 0)
HasherSeed(stream, t) == stream * 3 + t + 1

---------------------------------------------------------------------------
(* Hash families (hash.rs).  A hasher is a record:                         *)
(*   family, seed (of its samples), k (n_projections), d (columns of its   *)
(*   matrix), r, M, m.  Its matrices are read off the seeded draws.        *)

\* SignRandomProjections::new
SrpNew(k, dim, seed) ==
    [family |-> "SRP", seed |-> seed, k |-> k, d |-> dim, r |-> 0, M |-> 0, m |-> 0]

\* L2::new
L2New(dim, r, n_projections, seed) ==
    [family |-> "L2", seed |-> seed, k |-> n_projections, d |-> dim, r |-> r, M |-> 0, m |-> 0]

\* MIPS::new: wraps an L2 hasher of dimension dim + m, M = 0
MipsNew(dim, r, m, n_projections, seed) ==
    [family |-> "MIPS", seed |-> seed, k |-> n_projections, d |-> dim, r |-> r, M |-> 0, m |-> m]

\* the matrix entry (row i, column j) of a hasher with `cols` columns
Entry(h, cols, i, j) == NormalDraw(h.seed, (i - 1) * cols + j)

\* SignRandomProjections::hash_vec: bit i is 1 iff (hyperplanes^T . v)[i] > 0
\* (defined when Len(v) = h.d; the dot product panics otherwise, see PutPanics)
SrpHashVec(h, v) ==
    [i \in 1..h.k |->
        LET RECURSIVE Dot(_)
            Dot(j) == IF j = 0 THEN 0 ELSE Entry(h, h.k, j, i) * v[j] + Dot(j - 1)
        IN  IF Dot(h.d) > 0 THEN 1 ELSE 0]

\* L2::hash_and_cast_vec over `cols` columns: floor((a . x + b) / r) as i8
\* (defined when Len(xs) = cols)
hash_and_cast_vec(h, cols, xs) ==
    [i \in 1..h.k |->
        LET RECURSIVE Dot(_)
            Dot(j) == IF j = 0 THEN 0 ELSE Entry(h, cols, i, j) * xs[j] + Dot(j - 1)
            b == UniformDraw(h.seed, cols * h.k + i, h.r)
        IN  AsHashPrimitive((Dot(cols) + b) \div h.r)]

\* MIPS::tranform_put: [x * U / M, |x'|^2, |x'|^4, ...] (defined when M # 0)
tranform_put(h, v) ==
    LET xs == [i \in 1..Len(v) |-> Rnd(v[i] * Scale * Scale * UNum, h.M * UDen)]
        n == l2_norm(xs)
        norm_sq == Rnd(n * n, Scale)
    IN  xs \o [i \in 1..h.m |-> Rnd(Pow(norm_sq, i), Pow(Scale, i - 1))]

\* MIPS::transform_query: [x / |x|, 1/2, 1/2, ...] (defined when |x| # 0)
transform_query(h, v) ==
    LET l2 == l2_norm(ToFixed(v))
    IN  [i \in 1..Len(v) |-> Rnd(v[i] * Scale * Scale, l2)] \o [i \in 1..h.m |-> Scale \div 2]

\* hash_vec_query panics: the ndarray dot product on a shape mismatch
QueryPanics(h, v) == Len(v) # h.d

\* hash_vec_put panics: MIPS "is not fitted" (M = 0), or the dot product
PutPanics(h, v) == (h.family = "MIPS" /\ h.M = 0) \/ Len(v) # h.d

\* VecHash::hash_vec_query (when it does not panic).  A zero query makes every
\* component of the MIPS transform NaN, and NaN as i8 is 0.
hash_vec_query(h, v) ==
    CASE h.family = "SRP" -> SrpHashVec(h, v)
      [] h.family = "L2" -> hash_and_cast_vec(h, h.d, ToFixed(v))
      [] OTHER ->
            IF l2_norm(ToFixed(v)) = 0 THEN [i \in 1..h.k |-> 0]
            ELSE hash_and_cast_vec(h, h.d + h.m, transform_query(h, v))

\* VecHash::hash_vec_put (when it does not panic)
hash_vec_put(h, v) ==
    CASE h.family = "SRP" -> SrpHashVec(h, v)
      [] h.family = "L2" -> hash_and_cast_vec(h, h.d, ToFixed(v))
      [] OTHER -> hash_and_cast_vec(h, h.d + h.m, tranform_put(h, v))

\* split v into chunks of at most n elements (slice::chunks)
RECURSIVE Chunks(_, _)
Chunks(v, n) ==
    IF Len(v) = 0 THEN {}
    ELSE IF Len(v) <= n THEN {v}
    ELSE {SubSeq(v, 1, n)} \cup Chunks(SubSeq(v, n + 1, Len(v)), n)

\* MIPS::fit: M = the largest l2 norm among the chunks of v
MipsFit(h, v) ==
    LET norms == {l2_norm(ToFixed(x)) : x \in Chunks(v, h.d)}
    IN  [h EXCEPT !.M = IF norms = {} THEN 0 ELSE CHOOSE n \in norms : \A o \in norms : o <= n]

---------------------------------------------------------------------------
(* Storage backend (the HashTables contract).  A backend is a record:      *)
(*   tables     one [keys, members] per hash table: the bucket keys that   *)
(*              exist and the (key, id) pairs; a key can exist with an     *)
(*              empty bucket                                               *)
(*   counter    number of ids allocated                                    *)
(*   vec_store  id -> vector (ids from 0), empty when only_index           *)
(*   only_index                                                            *)
(* An Option<T> is a sequence of length 0 (None) or 1 (Some).              *)

None == <<>>
Some(x) == <<x>>

\* HashTables::new: n empty tables
BackendNew(n, only_index) ==
    [tables |-> [t \in 1..n |-> [keys |-> {}, members |-> {}]],
     counter |-> 0, vec_store |-> <<>>, only_index |-> only_index]

\* the bucket at (hash, t): the ids stored under the key
Bucket(b, hash, t) == {p[2] : p \in {q \in b.tables[t + 1].members : q[1] = hash}}

\* HashTables::put: a new id on the first table's insertion of v, the same id
\* for the following tables; the vector is kept unless only_index
BackendPut(b, f, hash, v, t) ==
    IF t \in f THEN [err |-> "BackendIO", ht |-> b, id |-> 0]
    ELSE LET id == IF t = 0 THEN b.counter ELSE b.counter - 1
             tbl == b.tables[t + 1]
         IN  [err |-> "",
              id |-> id,
              ht |-> [b EXCEPT
                        !.tables[t + 1] = [keys |-> tbl.keys \cup {hash},
                                           members |-> tbl.members \cup {<<hash, id>>}],
                        !.counter = IF t = 0 THEN @ + 1 ELSE @,
                        !.vec_store = IF t = 0 /\ ~b.only_index THEN Append(@, v) ELSE @]]

\* the id of v: the position of its first copy in vec_store (ids from 0)
IdOf(b, v) ==
    LET at == {i \in 1..Len(b.vec_store) : b.vec_store[i] = v}
    IN  IF at = {} THEN None ELSE Some((CHOOSE i \in at : \A j \in at : i <= j) - 1)

\* HashTables::delete: removes the id of v from the bucket at (hash, t)
BackendDelete(b, f, hash, v, t) ==
    IF t \in f THEN [err |-> "BackendIO", ht |-> b]
    ELSE IF IdOf(b, v) = None THEN [err |-> "", ht |-> b]
    ELSE IF hash \notin b.tables[t + 1].keys THEN [err |-> "NotFound", ht |-> b]
    ELSE [err |-> "",
          ht |-> [b EXCEPT !.tables[t + 1].members = @ \ {<<hash, Head(IdOf(b, v))>>}]]

\* HashTables::update_by_idx: moves id from bucket (old_hash, t) to (new_hash, t)
BackendUpdateByIdx(b, f, old_hash, new_hash, id, t) ==
    IF t \in f THEN [err |-> "BackendIO", ht |-> b]
    ELSE IF old_hash \notin b.tables[t + 1].keys THEN [err |-> "NotFound", ht |-> b]
    ELSE LET tbl == b.tables[t + 1]
         IN  [err |-> "",
              ht |-> [b EXCEPT
                        !.tables[t + 1] =
                            [keys |-> tbl.keys \cup {new_hash},
                             members |-> (tbl.members \ {<<old_hash, id>>}) \cup {<<new_hash, id>>}]]]

\* HashTables::query_bucket: NotFound when the key does not exist in table t
BackendQueryBucket(b, f, hash, t) ==
    IF t \in f THEN [err |-> "BackendIO", bucket |-> {}]
    ELSE IF hash \notin b.tables[t + 1].keys THEN [err |-> "NotFound", bucket |-> {}]
    ELSE [err |-> "", bucket |-> Bucket(b, hash, t)]

---------------------------------------------------------------------------
(* The coordinator (lsh/lsh.rs).  Every operation is an operator from the  *)
(* coordinator l (and the faulty tables f) to an outcome                   *)
(*   [out: "ok" | "err" | "panic", err, val, lsh]                          *)
(* where lsh is the coordinator the call leaves behind.                    *)

\* LSH::new.  H is the type parameter of LSH<T, H>: the hash family, fixed
\* when the value is created
New(H, n_projections, n_hash_tables, dim) ==
    [H |-> H,
     n_hash_tables |-> n_hash_tables,
     n_projections |-> n_projections,
     hashers |-> <<>>,
     dim |-> dim,
     hash_tables |-> None,
     _seed |-> 0,
     only_index_storage |-> FALSE,
     _multi_probe |-> FALSE,
     _multi_probe_budget |-> 16]

\* lsh_from_lsh: a backend of n_hash_tables tables; store_hashers keeps the
\* hashers as built unless the backend's database d already holds hashers,
\* and then load_hashers returns those
lsh_from_lsh(l, hashers, d) ==
    [l EXCEPT !.hashers = IF d = None THEN hashers ELSE Head(d),
              !.hash_tables = Some(BackendNew(l.n_hash_tables, l.only_index_storage))]

\* the hashers a selector builds from the stream of create_rng(_seed)
BuildHashers(l, family, stream) ==
    [t \in 1..l.n_hash_tables |->
        LET seed == HasherSeed(stream, t - 1)
        IN  CASE family = "SRP" -> SrpNew(l.n_projections, l.dim, seed)
              [] family = "L2" -> L2New(l.dim, RParam, l.n_projections, seed)
              [] OTHER -> MipsNew(l.dim, RParam, MParam, l.n_projections, seed)]

\* LSH::validate_vec
validate_vec(l, v) == Len(v) = l.dim

Outcome(out, err, val, l) == [out |-> out, err |-> err, val |-> val, lsh |-> l]

\* the loop of store_vec over the hashers, from hasher i (from 0) on, the
\* backend ht taken out of the coordinator
RECURSIVE StoreVecLoop(_, _, _, _, _, _)
StoreVecLoop(l, f, v, ht, i, idx) ==
    IF i = Len(l.hashers) THEN Outcome("ok", "", idx, [l EXCEPT !.hash_tables = Some(ht)])
    ELSE IF PutPanics(l.hashers[i + 1], v) THEN Outcome("panic", "", 0, l)
    ELSE LET r == BackendPut(ht, f, hash_vec_put(l.hashers[i + 1], v), v, i)
         IN  IF r.err # "" THEN Outcome("err", r.err, 0, [l EXCEPT !.hash_tables = None])
             ELSE StoreVecLoop(l, f, v, r.ht, i + 1, r.id)

\* LSH::store_vec
StoreVecOutcome(l, f, v) ==
    IF ~validate_vec(l, v) THEN Outcome("err", "Dim", 0, l)
    ELSE IF l.hash_tables = None THEN Outcome("panic", "", 0, l)
    ELSE StoreVecLoop(l, f, v, Head(l.hash_tables), 0, 0)

\* the loop of update_by_idx over the hashers
RECURSIVE UpdateLoop(_, _, _, _, _, _, _)
UpdateLoop(l, f, idx, new_v, old_v, ht, i) ==
    IF i = Len(l.hashers) THEN Outcome("ok", "", 0, [l EXCEPT !.hash_tables = Some(ht)])
    ELSE IF PutPanics(l.hashers[i + 1], new_v) \/ PutPanics(l.hashers[i + 1], old_v)
    THEN Outcome("panic", "", 0, l)
    ELSE LET r == BackendUpdateByIdx(ht, f, hash_vec_put(l.hashers[i + 1], old_v),
                                     hash_vec_put(l.hashers[i + 1], new_v), idx, i)
         IN  IF r.err # "" THEN Outcome("err", r.err, 0, [l EXCEPT !.hash_tables = None])
             ELSE UpdateLoop(l, f, idx, new_v, old_v, r.ht, i + 1)

\* LSH::update_by_idx
UpdateByIdxOutcome(l, f, idx, new_v, old_v) ==
    IF l.hash_tables = None THEN Outcome("panic", "", 0, l)
    ELSE UpdateLoop(l, f, idx, new_v, old_v, Head(l.hash_tables), 0)

\* the loop of delete_vec over the hashers: the backend's error is dropped
RECURSIVE DeleteLoop(_, _, _, _)
DeleteLoop(l, f, v, i) ==
    IF i = Len(l.hashers) THEN Outcome("ok", "", 0, l)
    ELSE IF QueryPanics(l.hashers[i + 1], v) \/ l.hash_tables = None THEN Outcome("panic", "", 0, l)
    ELSE LET r == BackendDelete(Head(l.hash_tables), f, hash_vec_query(l.hashers[i + 1], v), v, i)
         IN  DeleteLoop([l EXCEPT !.hash_tables = Some(r.ht)], f, v, i + 1)

\* LSH::delete_vec
DeleteVecOutcome(l, f, v) ==
    IF ~validate_vec(l, v) THEN Outcome("err", "Dim", 0, l)
    ELSE DeleteLoop(l, f, v, 0)

---------------------------------------------------------------------------
(* Multi-probe generator (multi_probe.rs) *)

\* the k-element combinations of lo..hi (as increasing sequences), in
\* lexicographic order: itertools' combinations
RECURSIVE Combinations(_, _, _)
Combinations(lo, hi, k) ==
    IF k = 0 THEN <<<<>>>>
    ELSE IF hi - lo + 1 < k THEN <<>>
    ELSE LET with == Combinations(lo + 1, hi, k - 1)
         IN  [j \in 1..Len(with) |-> <<lo>> \o with[j]] \o Combinations(lo + 1, hi, k)

\* step_wise_perturb with the switchpoint itself read as a negative shift
step_wise_perturb_from_switchpoint(hash_length, n_perturbations) ==
    LET combs == Combinations(0, hash_length * 2 - 1, n_perturbations)
        switchpoint == hash_length - 1
    IN  [c \in 1..Len(combs) |->
            [p \in 1..Len(combs[c]) |->
                LET i == combs[c][p]
                IN  IF i >= switchpoint THEN <<i \div 2, -1>> ELSE <<i, 1>>]]

\* step_wise_perturb: each combination of the indexes 0..2*hash_length-1, an
\* index i above the switchpoint read as (i / 2, -1), any other as (i, 1)
step_wise_perturb(hash_length, n_perturbations) ==
    LET combs == Combinations(0, hash_length * 2 - 1, n_perturbations)
        switchpoint == hash_length - 1
    IN  [c \in 1..Len(combs) |->
            [p \in 1..Len(combs[c]) |->
                LET i == combs[c][p]
                IN  IF i > switchpoint THEN <<i \div 2, -1>> ELSE <<i, 1>>]]

\* n over k
RECURSIVE binomial(_, _)
binomial(n, k) ==
    IF k = 0 THEN 1 ELSE IF k > n THEN 0 ELSE binomial(n - 1, k - 1) + binomial(n - 1, k)

\* the perturbation vector of one step_wise_perturb item: the shifts summed
\* per position (positions from 0 in the code, from 1 here)
NewPerturb(hash_len, item) ==
    [pos \in 1..hash_len |->
        LET RECURSIVE Shift(_)
            Shift(p) == IF p = 0 THEN 0
                        ELSE (IF item[p][1] = pos - 1 THEN item[p][2] ELSE 0) + Shift(p - 1)
        IN  Shift(Len(item))]

\* the while loop charging the budget what the stage took
RECURSIVE ProbingLoopChargingTaken(_, _, _, _)
ProbingLoopChargingTaken(hash_len, k, budget, hash_perturbs) ==
    IF ~(budget > 0 /\ k <= hash_len) THEN hash_perturbs
    ELSE LET items == step_wise_perturb(hash_len, k)
             take == IF budget < Len(items) THEN budget ELSE Len(items)
         IN  ProbingLoopChargingTaken(hash_len, k + 1, budget - take,
                         hash_perturbs \o [j \in 1..take |-> NewPerturb(hash_len, items[j])])

\* the while loop of step_wise_probing from stage k with `budget` left
RECURSIVE ProbingLoop(_, _, _, _)
ProbingLoop(hash_len, k, budget, hash_perturbs) ==
    IF ~(budget > 0 /\ k <= hash_len) THEN hash_perturbs
    ELSE LET n_combinations == binomial(hash_len, k) * 2
             items == step_wise_perturb(hash_len, k)
             take == IF budget < Len(items) THEN budget ELSE Len(items)
         IN  ProbingLoop(hash_len, k + 1, budget - n_combinations,
                         hash_perturbs \o [j \in 1..take |-> NewPerturb(hash_len, items[j])])

\* step_wise_probing
step_wise_probing(hash_len, budget) == ProbingLoop(hash_len, 1, budget, <<>>)

---------------------------------------------------------------------------
(* Queries (lsh/lsh.rs) *)

\* LSH::process_bucket_union_result: NotFound adds nothing, a bucket is united
\* with the union, any other error is returned.  [err, union]
process_bucket_union_result(l, f, hash, hash_table_idx, bucket_union) ==
    LET r == BackendQueryBucket(Head(l.hash_tables), f, hash, hash_table_idx)
    IN  IF r.err = "NotFound" THEN [err |-> "", union |-> bucket_union]
        ELSE IF r.err = "" THEN [err |-> "", union |-> bucket_union \cup r.bucket]
        ELSE [err |-> r.err, union |-> bucket_union]

\* the loop of query_bucket_union over the hashers
RECURSIVE QueryLoop(_, _, _, _, _)
QueryLoop(l, f, v, i, bucket_union) ==
    IF i = Len(l.hashers) THEN Outcome("ok", "", bucket_union, l)
    ELSE IF QueryPanics(l.hashers[i + 1], v) \/ l.hash_tables = None THEN Outcome("panic", "", {}, l)
    ELSE LET r == process_bucket_union_result(l, f, hash_vec_query(l.hashers[i + 1], v), i, bucket_union)
         IN  IF r.err # "" THEN Outcome("err", r.err, {}, l)
             ELSE QueryLoop(l, f, v, i + 1, r.union)

\* the probes of one table: the query's hash, then the hash shifted by each
\* perturbation
ProbeKeys(hash, probing_seq) ==
    <<hash>> \o [j \in 1..Len(probing_seq) |-> [p \in 1..Len(hash) |-> hash[p] + probing_seq[j][p]]]

\* the probes of table i from probe j on
RECURSIVE ProbeLoop(_, _, _, _, _, _)
ProbeLoop(l, f, keys, i, j, bucket_union) ==
    IF j > Len(keys) THEN [err |-> "", union |-> bucket_union]
    ELSE LET r == process_bucket_union_result(l, f, keys[j], i, bucket_union)
         IN  IF r.err # "" THEN r ELSE ProbeLoop(l, f, keys, i, j + 1, r.union)

\* multi_probe_bucket_union: per table, the query's own bucket first, then the
\* buckets of the step-wise probes
RECURSIVE MultiProbeLoop(_, _, _, _, _, _)
MultiProbeLoop(l, f, v, probing_seq, i, bucket_union) ==
    IF i = Len(l.hashers) THEN Outcome("ok", "", bucket_union, l)
    ELSE IF QueryPanics(l.hashers[i + 1], v) \/ l.hash_tables = None THEN Outcome("panic", "", {}, l)
    ELSE LET r == ProbeLoop(l, f, ProbeKeys(hash_vec_query(l.hashers[i + 1], v), probing_seq),
                            i, 1, bucket_union)
         IN  IF r.err # "" THEN Outcome("err", r.err, {}, l)
             ELSE MultiProbeLoop(l, f, v, probing_seq, i + 1, r.union)

multi_probe_bucket_union(l, f, v) ==
    MultiProbeLoop(l, f, v, step_wise_probing(l.n_projections, l._multi_probe_budget), 0, {})

\* LSH::query_bucket_union
query_bucket_union(l, f, v) ==
    IF ~validate_vec(l, v) THEN Outcome("err", "Dim", {}, l)
    ELSE IF l._multi_probe THEN multi_probe_bucket_union(l, f, v)
    ELSE QueryLoop(l, f, v, 0, {})

\* LSH::query_bucket_ids: the union's ids (a Vec in the set's iteration order)
query_bucket_ids(l, f, v) ==
    IF ~validate_vec(l, v) THEN Outcome("err", "Dim", {}, l)
    ELSE query_bucket_union(l, f, v)

---------------------------------------------------------------------------
(* The state machine *)

Families == {"SRP", "L2", "MIPS"}

Tables == 0..(L - 1)

\* batches of at most MaxBatch vectors (slices may hold vectors of any length)
Batches == UNION {[1..n -> Vectors] : n \in 0..MaxBatch}

\* the rows of a 2-D array all have the array's number of columns
Rectangular(vs) == \A i \in 1..Len(vs), j \in 1..Len(vs) : Len(vs[i]) = Len(vs[j])

\* ret: the last step.  op and arg name the call and its input; out is "ok",
\* "err" (with the error in err) or "panic"; val is what the call returned
Ret(op, arg, out, err, val) == [op |-> op, arg |-> arg, out |-> out, err |-> err, val |-> val]

\* the (key, id) pairs of every table of a backend
Members(b) == [t \in 1..Len(b.tables) |-> b.tables[t].members]

\* hist: stored = the (id, vector) pairs the store calls returned;
\* pure = since the backend was created only store calls and reads used the
\* index, and no hasher was fitted after a vector was stored;
\* last_store = Some([pre, fresh, v, id]) right after a successful
\* store_vec(v): the members before it, and whether v was new to vec_store;
\* roundtrip = the same right after the delete_vec(v) that follows it;
\* updates = number of update_by_idx calls made
NoHist == [stored |-> {}, pure |-> TRUE, last_store |-> None, roundtrip |-> None, updates |-> 0]

\* what any step other than store_vec / delete_vec does to hist
Touch(h) == [h EXCEPT !.last_store = None, !.roundtrip = None]

\* a call that may move stored ids: the record of stored vectors ends
Impure(h) == [Touch(h) EXCEPT !.pure = FALSE, !.stored = {}]

Init ==
    /\ lsh \in {New(H, K, L, Dim) : H \in Families}
    /\ fault = {}
    /\ call = None
    /\ ret = Ret("new", 0, "ok", "", 0)
    /\ file = None
    /\ hist = NoHist
    /\ db = None

\* no call is in progress and no call has panicked
Idle == call = None /\ ret.out # "panic"

\* the backend still has n ids to give
HasRoom(n) ==
    IF lsh.hash_tables = None THEN TRUE ELSE Head(lsh.hash_tables).counter + n <= MaxStored

\* a selector: builds the hashers from the seeded stream, then lsh_from_lsh
Select(family) ==
    /\ Idle
    /\ lsh.H = family
    /\ \E stream \in create_rng(lsh._seed) :
          lsh' = lsh_from_lsh(lsh, BuildHashers(lsh, family, stream), db)
    /\ ret' = Ret("select", 0, "ok", "", 0)
    /\ hist' = [NoHist EXCEPT !.updates = hist.updates]
    /\ UNCHANGED <<fault, call, file, db>>

\* LSH::srp
srp == Select("SRP")

\* LSH::l2
l2 == Select("L2")

\* LSH::mips
mips == Select("MIPS")

\* a builder method: changes fields of the coordinator and returns it
Setter(op, arg, l) ==
    /\ Idle
    /\ lsh' = l
    /\ ret' = Ret(op, arg, "ok", "", 0)
    /\ hist' = Touch(hist)
    /\ UNCHANGED <<fault, call, file, db>>

\* LSH::seed
seed(s) == Setter("seed", s, [lsh EXCEPT !._seed = s])

\* LSH::only_index
only_index == Setter("only_index", 0, [lsh EXCEPT !.only_index_storage = TRUE])

\* LSH::multi_probe
multi_probe(budget) ==
    Setter("multi_probe", budget, [lsh EXCEPT !._multi_probe = TRUE, !._multi_probe_budget = budget])

\* LSH::base
base == Setter("base", 0, [lsh EXCEPT !._multi_probe = FALSE])

\* MIPS::fit on hasher t (hashers is a public field)
fit(t, v) ==
    /\ Idle
    /\ lsh.H = "MIPS"
    /\ t \in 1..Len(lsh.hashers)
    /\ lsh' = [lsh EXCEPT !.hashers[t] = MipsFit(@, v)]
    /\ ret' = Ret("fit", v, "ok", "", 0)
    /\ hist' = IF hist.stored = {} THEN Touch(hist) ELSE Impure(hist)
    /\ UNCHANGED <<fault, call, file, db>>

\* the environment: the database the backend opens was written by an earlier
\* run, whose index had n_tables tables and n_proj projections
Populate(n_tables, n_proj) ==
    /\ Idle
    /\ db = None
    /\ \E stream \in create_rng(0) :
          db' = Some(BuildHashers([lsh EXCEPT !.n_hash_tables = n_tables,
                                              !.n_projections = n_proj], lsh.H, stream))
    /\ ret' = Ret("env", <<n_tables, n_proj>>, "ok", "", 0)
    /\ hist' = Touch(hist)
    /\ UNCHANGED <<lsh, fault, call, file>>

\* the environment breaks table t of the backend, or repairs the backend
InjectFault(t) ==
    /\ Idle
    /\ fault = {}
    /\ fault' = {t}
    /\ ret' = Ret("env", t, "ok", "", 0)
    /\ hist' = Touch(hist)
    /\ UNCHANGED <<lsh, call, file, db>>

ClearFault ==
    /\ Idle
    /\ fault # {}
    /\ fault' = {}
    /\ ret' = Ret("env", 0, "ok", "", 0)
    /\ hist' = Touch(hist)
    /\ UNCHANGED <<lsh, call, file, db>>

\* a finished call: the coordinator it leaves and its outcome
Finish(op, arg, o) ==
    /\ lsh' = o.lsh
    /\ ret' = Ret(op, arg, o.out, o.err, o.val)

\* LSH::store_vec
store_vec(v) ==
    /\ Idle
    /\ HasRoom(1)
    /\ LET o == StoreVecOutcome(lsh, fault, v)
       IN  /\ Finish("store_vec", v, o)
           /\ hist' = IF o.out = "ok"
                      THEN [hist EXCEPT
                              !.stored = IF hist.pure THEN @ \cup {<<o.val, v>>} ELSE @,
                              !.last_store = Some([pre |-> Members(Head(lsh.hash_tables)),
                                                   fresh |-> IdOf(Head(lsh.hash_tables), v) = None,
                                                   v |-> v, id |-> o.val]),
                              !.roundtrip = None]
                      ELSE Touch(hist)
    /\ UNCHANGED <<fault, call, file, db>>

\* LSH::delete_vec
delete_vec(v) ==
    /\ Idle
    /\ LET o == DeleteVecOutcome(lsh, fault, v)
       IN  /\ Finish("delete_vec", v, o)
           /\ hist' = [Impure(hist) EXCEPT
                         !.roundtrip = IF o.out = "ok" /\ hist.last_store # None
                                          /\ Head(hist.last_store).v = v
                                       THEN hist.last_store ELSE None]
    /\ UNCHANGED <<fault, call, file, db>>

\* LSH::update_by_idx
update_by_idx(idx, new_v, old_v) ==
    /\ Idle
    /\ hist.updates < MaxUpdates
    /\ LET o == UpdateByIdxOutcome(lsh, fault, idx, new_v, old_v)
       IN  /\ Finish("update_by_idx", <<idx, new_v, old_v>>, o)
           /\ hist' = [Impure(hist) EXCEPT !.updates = @ + 1]
    /\ UNCHANGED <<fault, call, file, db>>

---------------------------------------------------------------------------
(* store_vecs / store_array, step by step.  A spawned thread hashes every   *)
(* (vector, table) pair and sends it down an unbounded channel; the scope  *)
(* joins the thread; then the caller takes the backend and puts the items  *)
(* in the order received.  The call in progress is                          *)
(*   [op, vs, pc: "produce" | "consume", vi, ti: the next vector (from 1)  *)
(*    and hasher (from 0) to hash, chan: the items queued, ht: the backend *)
(*    taken, insert_idx, applied: the (v, table, id) of every put done]    *)

\* the call starts: validate_vec on the first vector, increase_storage, and the
\* producer is spawned inside the scope
StoreBatchCall(op, vs) ==
    /\ Idle
    /\ HasRoom(Len(vs))
    /\ op = "store_array" => Rectangular(vs)
    /\ IF vs = <<>>
       THEN Finish(op, vs, Outcome("panic", "", <<>>, lsh)) /\ call' = call
       ELSE IF ~validate_vec(lsh, vs[1])
       THEN Finish(op, vs, Outcome("err", "Dim", <<>>, lsh)) /\ call' = call
       ELSE IF lsh.hash_tables = None
       THEN Finish(op, vs, Outcome("panic", "", <<>>, lsh)) /\ call' = call
       ELSE /\ call' = Some([op |-> op, vs |-> vs, pc |-> "produce", vi |-> 1, ti |-> 0,
                             chan |-> <<>>, ht |-> None, insert_idx |-> <<>>, applied |-> <<>>])
            /\ ret' = Ret(op, vs, "running", "", <<>>)
            /\ lsh' = lsh
    /\ hist' = Touch(hist)
    /\ UNCHANGED <<fault, file, db>>

\* LSH::store_vecs
store_vecs(vs) == StoreBatchCall("store_vecs", vs)

\* LSH::store_array
store_array(vs) == StoreBatchCall("store_array", vs)

\* the producer's loops swapped: `for proj in hashers: for v in vs`
NextPosTablesOuter(c, n_hashers) ==
    IF c.vi < Len(c.vs) THEN [c EXCEPT !.vi = @ + 1]
    ELSE IF c.ti + 1 < n_hashers THEN [c EXCEPT !.vi = 1, !.ti = @ + 1]
    ELSE [c EXCEPT !.vi = Len(c.vs) + 1]

\* the position after (vi, ti) in `for v in vs: for proj in hashers`
NextPos(c, n_hashers) ==
    IF c.ti + 1 < n_hashers THEN [c EXCEPT !.ti = @ + 1] ELSE [c EXCEPT !.vi = @ + 1, !.ti = 0]

\* the producer hashes one (vector, table) pair and sends it; a panic of
\* hash_vec_put ends the thread, the scope reports it and the caller's
\* expect panics
Produce ==
    /\ call # None
    /\ LET c == Head(call)
       IN  /\ c.op \in {"store_vecs", "store_array"}
           /\ c.pc = "produce"
           /\ c.vi <= Len(c.vs)
           /\ Len(lsh.hashers) > 0
           /\ IF PutPanics(lsh.hashers[c.ti + 1], c.vs[c.vi])
              THEN /\ call' = None
                   /\ ret' = Ret(c.op, c.vs, "panic", "", <<>>)
              ELSE /\ call' = Some(NextPos(
                          [c EXCEPT !.chan = Append(@,
                              [hash |-> hash_vec_put(lsh.hashers[c.ti + 1], c.vs[c.vi]),
                               v |-> c.vs[c.vi], i |-> c.ti])],
                          Len(lsh.hashers)))
                   /\ ret' = ret
    /\ UNCHANGED <<lsh, fault, file, hist, db>>

\* the producer is through: it drops tx, the scope joins it, and the caller
\* takes the backend out of the coordinator
Join ==
    /\ call # None
    /\ LET c == Head(call)
       IN  /\ c.op \in {"store_vecs", "store_array"}
           /\ c.pc = "produce"
           /\ c.vi > Len(c.vs) \/ Len(lsh.hashers) = 0
           /\ call' = Some([c EXCEPT !.pc = "consume", !.ht = lsh.hash_tables])
           /\ lsh' = [lsh EXCEPT !.hash_tables = None]
    /\ UNCHANGED <<fault, ret, file, hist, db>>

\* the caller receives the next item and puts it; an error of put returns at
\* once, the taken backend is dropped with the call's locals
Consume ==
    /\ call # None
    /\ LET c == Head(call)
       IN  /\ c.op \in {"store_vecs", "store_array"}
           /\ c.pc = "consume"
           /\ c.chan # <<>>
           /\ LET item == Head(c.chan)
                  r == BackendPut(Head(c.ht), fault, item.hash, item.v, item.i)
              IN  IF r.err # ""
                  THEN /\ call' = None
                       /\ ret' = Ret(c.op, c.vs, "err", r.err, <<>>)
                  ELSE /\ call' = Some([c EXCEPT !.chan = Tail(@),
                                                 !.ht = Some(r.ht),
                                                 !.insert_idx = Append(@, r.id),
                                                 !.applied = Append(@, <<item.v, item.i, r.id>>)])
                       /\ ret' = ret
    /\ UNCHANGED <<lsh, fault, file, hist, db>>

\* the ids of the vectors of a finished batch: the id of each first-table put
StoredBy(applied) == {<<applied[n][3], applied[n][1]>> : n \in {m \in 1..Len(applied) : applied[m][2] = 0}}

\* the channel is empty and closed: the backend goes back and the ids return
Return ==
    /\ call # None
    /\ LET c == Head(call)
       IN  /\ c.op \in {"store_vecs", "store_array"}
           /\ c.pc = "consume"
           /\ c.chan = <<>>
           /\ call' = None
           /\ lsh' = [lsh EXCEPT !.hash_tables = c.ht]
           /\ ret' = Ret(c.op, c.vs, "ok", "", c.insert_idx)
           /\ hist' = [hist EXCEPT !.stored = IF hist.pure THEN @ \cup StoredBy(c.applied) ELSE @]
    /\ UNCHANGED <<fault, file, db>>

---------------------------------------------------------------------------
(* The queries.  A parallel batch query is a call in progress                *)
(*   [op, vs, done: the inputs a worker is through with, results: what the  *)
(*    successful ones returned, saved_error: the error collect keeps]       *)

\* LSH::query_bucket_ids
query_bucket_ids_call(v) ==
    /\ Idle
    /\ Finish("query_bucket_ids", v, query_bucket_ids(lsh, fault, v))
    /\ hist' = Touch(hist)
    /\ UNCHANGED <<fault, call, file, db>>

\* vs.iter().map(query_bucket_ids).collect(): the inputs in order, the first
\* error ends the iteration and is the result
RECURSIVE QueryBatchLoop(_, _, _, _, _)
QueryBatchLoop(l, f, vs, j, acc) ==
    IF j > Len(vs) THEN Outcome("ok", "", acc, l)
    ELSE LET o == query_bucket_ids(l, f, vs[j])
         IN  IF o.out # "ok" THEN Outcome(o.out, o.err, <<>>, l)
             ELSE QueryBatchLoop(l, f, vs, j + 1, Append(acc, o.val))

\* LSH::query_bucket_ids_batch
query_bucket_ids_batch(l, f, vs) == QueryBatchLoop(l, f, vs, 1, <<>>)

query_bucket_ids_batch_call(vs) ==
    /\ Idle
    /\ Finish("query_bucket_ids_batch", vs, query_bucket_ids_batch(lsh, fault, vs))
    /\ hist' = Touch(hist)
    /\ UNCHANGED <<fault, call, file, db>>

\* LSH::query_bucket_ids_batch_par: the inputs are handed to the worker pool
query_bucket_ids_batch_par(vs) ==
    /\ Idle
    /\ call' = Some([op |-> "query_bucket_ids_batch_par", vs |-> vs, done |-> {},
                     results |-> [j \in 1..Len(vs) |-> {}], saved_error |-> None])
    /\ ret' = Ret("query_bucket_ids_batch_par", vs, "running", "", <<>>)
    /\ hist' = Touch(hist)
    /\ UNCHANGED <<lsh, fault, file, db>>

\* a worker runs the closure on input j, whichever input is free.  A panic of
\* the closure is carried to the caller; the first error to arrive is kept
Work(j) ==
    /\ call # None
    /\ LET c == Head(call)
       IN  /\ c.op = "query_bucket_ids_batch_par"
           /\ j \in (1..Len(c.vs)) \ c.done
           /\ LET o == query_bucket_ids(lsh, fault, c.vs[j])
              IN  IF o.out = "panic"
                  THEN /\ call' = None
                       /\ ret' = Ret(c.op, c.vs, "panic", "", <<>>)
                  ELSE /\ call' = Some([c EXCEPT
                              !.done = @ \cup {j},
                              !.results[j] = IF o.out = "ok" THEN o.val ELSE @,
                              !.saved_error = IF o.out = "err" /\ @ = None THEN Some(o.err) ELSE @])
                       /\ ret' = ret
    /\ UNCHANGED <<lsh, fault, file, hist, db>>

\* once an error is kept a worker may drop an input it has not started
Skip(j) ==
    /\ call # None
    /\ LET c == Head(call)
       IN  /\ c.op = "query_bucket_ids_batch_par"
           /\ j \in (1..Len(c.vs)) \ c.done
           /\ c.saved_error # None
           /\ call' = Some([c EXCEPT !.done = @ \cup {j}])
    /\ UNCHANGED <<lsh, fault, ret, file, hist, db>>

\* collect: the kept error, or the results in input order
Collect ==
    /\ call # None
    /\ LET c == Head(call)
       IN  /\ c.op = "query_bucket_ids_batch_par"
           /\ c.done = 1..Len(c.vs)
           /\ call' = None
           /\ ret' = IF c.saved_error # None
                     THEN Ret(c.op, c.vs, "err", Head(c.saved_error), <<>>)
                     ELSE Ret(c.op, c.vs, "ok", "", c.results)
    /\ UNCHANGED <<lsh, fault, file, hist, db>>

---------------------------------------------------------------------------
(* dump and load (in-memory backend).  file is the blob on disk, with x:    *)
(* the coordinator that wrote it, and n: the number of dumps made            *)

\* bincode::serialize / bincode::deserialize of a serde value
serialize(x) == [bytes |-> x]

deserialize(b) == b.bytes

\* IntermediatBlob as dump fills it
IntermediatBlob(l) ==
    [hash_tables |-> serialize(l.hash_tables),
     hashers |-> serialize(l.hashers),
     n_hash_tables |-> l.n_hash_tables,
     n_projections |-> l.n_projections,
     dim |-> l.dim,
     _seed |-> l._seed]

\* LSH::dump
dump ==
    /\ Idle
    /\ IF file = None THEN TRUE ELSE Head(file).n < MaxDumps
    /\ file' = Some([ib |-> serialize(IntermediatBlob(lsh)), x |-> lsh,
                     n |-> IF file = None THEN 1 ELSE Head(file).n + 1])
    /\ ret' = Ret("dump", 0, "ok", "", 0)
    /\ hist' = Touch(hist)
    /\ UNCHANGED <<lsh, fault, call, db>>

\* the fields load assigns
Loaded(l, ib) ==
    [l EXCEPT !.hashers = deserialize(ib.hashers),
              !.hash_tables = deserialize(ib.hash_tables),
              !.n_hash_tables = ib.n_hash_tables,
              !.n_projections = ib.n_projections,
              !.dim = ib.dim,
              !._seed = ib._seed]

\* LSH::load: File::open fails when nothing was dumped
load ==
    /\ Idle
    /\ IF file = None
       THEN Finish("load", 0, Outcome("err", "Io", 0, lsh))
       ELSE Finish("load", 0, Outcome("ok", "", 0, Loaded(lsh, deserialize(Head(file).ib))))
    /\ hist' = Impure(hist)
    /\ UNCHANGED <<fault, call, file, db>>

---------------------------------------------------------------------------
(* The multi-probe generator on its own: a call of one of its functions    *)
(* with its arguments waits in `call`, and returns in `ret`                *)

ProbeCalls ==
    {[op |-> "step_wise_probing", hash_len |-> n, budget |-> b] :
        n \in 1..MaxHashLen, b \in 0..MaxProbeBudget}
    \cup {[op |-> "step_wise_perturb", hash_length |-> n, n_perturbations |-> k] :
        n \in 1..MaxHashLen, k \in 1..MaxHashLen}

InitProbe ==
    /\ lsh = New("L2", K, L, Dim)
    /\ fault = {}
    /\ call \in {Some(c) : c \in ProbeCalls}
    /\ ret = Ret("new", 0, "ok", "", 0)
    /\ file = None
    /\ hist = NoHist
    /\ db = None

\* step_wise_probing(hash_len, budget) returns
Probing ==
    /\ call # None
    /\ LET c == Head(call)
       IN  /\ c.op = "step_wise_probing"
           /\ ret' = Ret(c.op, <<c.hash_len, c.budget>>, "ok", "",
                         step_wise_probing(c.hash_len, c.budget))
    /\ call' = None
    /\ UNCHANGED <<lsh, fault, file, hist, db>>

\* step_wise_perturb(hash_length, n_perturbations) is collected
Perturb ==
    /\ call # None
    /\ LET c == Head(call)
       IN  /\ c.op = "step_wise_perturb"
           /\ ret' = Ret(c.op, <<c.hash_length, c.n_perturbations>>, "ok", "",
                         step_wise_perturb(c.hash_length, c.n_perturbations))
    /\ call' = None
    /\ UNCHANGED <<lsh, fault, file, hist, db>>

---------------------------------------------------------------------------
(* Specifications *)

Construct == srp \/ l2 \/ mips \/ \E t \in 1..L, v \in Vectors : fit(t, v)

Environment == ClearFault \/ \E t \in Tables : InjectFault(t)

\* storing and deleting single vectors
Next ==
    \/ Construct
    \/ Environment
    \/ \E v \in Vectors : store_vec(v)
    \/ \E v \in Vectors : delete_vec(v)

Spec == Init /\ [][Next]_vars

\* storing single vectors and moving them
NextUpdate ==
    \/ Construct
    \/ Environment
    \/ \E v \in Vectors : store_vec(v)
    \/ \E idx \in 0..(MaxStored - 1), new_v \in Vectors, old_v \in Vectors :
          update_by_idx(idx, new_v, old_v)

SpecUpdate == Init /\ [][NextUpdate]_vars

\* the store calls, the batch ones step by step
NextBatch ==
    \/ Construct
    \/ Environment
    \/ \E v \in Vectors : store_vec(v)
    \/ \E vs \in Batches : store_vecs(vs)
    \/ \E vs \in Batches : store_array(vs)
    \/ Produce
    \/ Join
    \/ Consume
    \/ Return

SpecBatch == Init /\ [][NextBatch]_vars

\* storing single vectors and querying them, with or without multi-probe
NextQuery ==
    \/ Construct
    \/ \E s \in 0..MaxSeed : seed(s)
    \/ Environment
    \/ \E budget \in 1..MaxBudget : multi_probe(budget)
    \/ base
    \/ \E v \in Vectors : store_vec(v)
    \/ \E v \in Vectors : query_bucket_ids_call(v)

SpecQuery == Init /\ [][NextQuery]_vars

\* storing single vectors and querying batches, in order or in parallel
NextPar ==
    \/ Construct
    \/ Environment
    \/ \E v \in Vectors : store_vec(v)
    \/ \E vs \in Batches : query_bucket_ids_batch_call(vs)
    \/ \E vs \in Batches : query_bucket_ids_batch_par(vs)
    \/ \E j \in 1..MaxBatch : Work(j)
    \/ \E j \in 1..MaxBatch : Skip(j)
    \/ Collect

SpecPar == Init /\ [][NextPar]_vars

\* storing single vectors, setting the coordinator up, dumping and loading
NextDump ==
    \/ srp \/ l2 \/ mips
    \/ \E budget \in 1..MaxBudget : multi_probe(budget)
    \/ only_index
    \/ \E v \in Vectors : store_vec(v)
    \/ dump
    \/ load

SpecDump == Init /\ [][NextDump]_vars

\* the multi-probe generator
NextProbe == Probing \/ Perturb

SpecProbe == InitProbe /\ [][NextProbe]_vars

\* building an index on a fresh or a populated database, dumping and loading
NextHashers ==
    \/ srp \/ l2 \/ mips
    \/ \E n_tables \in 1..(L + 1), n_proj \in 1..(K + 1) : Populate(n_tables, n_proj)
    \/ \E s \in 0..MaxSeed : seed(s)
    \/ only_index
    \/ dump
    \/ load

SpecHashers == Init /\ [][NextHashers]_vars

---------------------------------------------------------------------------
(* Properties *)

\* the coordinator holds a backend and every hasher can hash
Ready ==
    /\ lsh.hash_tables # None
    /\ Len(lsh.hashers) > 0
    /\ \A t \in 1..Len(lsh.hashers) : ~(lsh.hashers[t].family = "MIPS" /\ lsh.hashers[t].M = 0)

BatchOps == {"store_vecs", "store_array"}

\* the ids table t (from 0) of the coordinator's backend holds under a key;
\* a coordinator without a backend holds none
IdsAt(t, key) ==
    IF lsh.hash_tables = None THEN {} ELSE Bucket(Head(lsh.hash_tables), key, t)

\* C1, as claimed: after store_vec / store_vecs calls only, the id of every
\* stored vector is in the bucket of every table at the key hash_vec_query of
\* the vector, and a query_bucket_ids of the vector returns it.
C1_StoredAtQueryKey ==
    (hist.pure /\ call = None) =>
        \A p \in hist.stored :
            /\ \A t \in 1..Len(lsh.hashers) :
                  p[1] \in IdsAt(t - 1, hash_vec_query(lsh.hashers[t], p[2]))
            /\ fault = {} =>
                  LET q == query_bucket_ids(lsh, fault, p[2])
                  IN  q.out = "ok" /\ p[1] \in q.val

\* C2, as claimed (for a vector that was not in the index before, the case
\* most favourable to the claim): right after store_vec(v) and delete_vec(v)
\* every table holds the (key, id) pairs it held before the store_vec.
C2_StoreDeleteRestores ==
    (hist.roundtrip # None /\ lsh.hash_tables # None /\ fault = {}) =>
        (Head(hist.roundtrip).fresh => Members(Head(lsh.hash_tables)) = Head(hist.roundtrip).pre)

\* C3, as claimed: a batch store that succeeds returns one id per input
\* vector, entry j being the id under which vector j went into table 0.
C3_OneIdPerVector ==
    (ret.op \in BatchOps /\ ret.out = "ok") =>
        /\ Len(ret.val) = Len(ret.arg)
        /\ \A j \in 1..Len(ret.arg) :
              ret.val[j] \in Bucket(Head(lsh.hash_tables), hash_vec_put(lsh.hashers[1], ret.arg[j]), 0)

\* C4: during a batch store the puts applied so far are the first puts of
\* `for v in vs: for t in 0..L`, what is queued or applied is all of them
\* once the producer is through, and the ids of first-table puts grow; a call
\* that returns ids has applied every put of the batch, in that order.
C4_PutsInBatchOrder ==
    /\ (call # None /\ Head(call).op \in BatchOps) =>
          LET c == Head(call)
              n == Len(lsh.hashers)
          IN  /\ \A j \in 1..Len(c.applied) :
                    /\ c.applied[j][1] = c.vs[((j - 1) \div n) + 1]
                    /\ c.applied[j][2] = (j - 1) % n
              /\ \A i \in 1..Len(c.applied), j \in 1..Len(c.applied) :
                    (i < j /\ c.applied[i][2] = 0 /\ c.applied[j][2] = 0)
                        => c.applied[i][3] < c.applied[j][3]
              /\ c.pc = "consume" => Len(c.applied) + Len(c.chan) = Len(c.vs) * n
    /\ (ret.op \in BatchOps /\ ret.out = "ok") =>
          LET n == Len(lsh.hashers)
          IN  /\ Len(ret.val) = Len(ret.arg) * n
              /\ \A j \in 1..Len(ret.arg), t \in 0..(n - 1) :
                    ret.val[(j - 1) * n + t + 1]
                        \in Bucket(Head(lsh.hash_tables), hash_vec_put(lsh.hashers[t + 1], ret.arg[j]), t)
              /\ \A j \in 1..(Len(ret.arg) - 1) : ret.val[(j - 1) * n + 1] < ret.val[j * n + 1]

\* C4 witness: store_vecs of two different vectors has returned
C4_Witness ==
    /\ ret.op = "store_vecs" /\ ret.out = "ok"
    /\ Len(ret.arg) = 2 /\ ret.arg[1] # ret.arg[2]

\* C5, as claimed: a batch store on a ready index whose batch holds a vector
\* of a wrong length fails with the Dim error.
C5_DimOnAnyMismatch ==
    (ret.op \in BatchOps /\ ret.out # "running" /\ Ready
        /\ \E j \in 1..Len(ret.arg) : Len(ret.arg[j]) # lsh.dim)
    => (ret.out = "err" /\ ret.err = "Dim")

\* C6, as claimed: after a store or update call returned a backend error the
\* coordinator still owns its backend.
C6_BackendKeptOnError ==
    (ret.op \in {"store_vec", "store_vecs", "store_array", "update_by_idx"}
        /\ ret.out = "err" /\ ret.err # "Dim")
    => lsh.hash_tables # None

\* C7, as claimed: without multi-probe a query_bucket_ids of a vector of
\* length D returns the union over the tables of the ids under the key
\* hash_vec_query of the vector (a table without that key adds nothing), or
\* the backend's error when a table fails.
C7_QueryIsBucketUnion ==
    (ret.op = "query_bucket_ids" /\ ~lsh._multi_probe /\ Len(ret.arg) = lsh.dim) =>
        IF lsh.hash_tables # None /\ \E t \in 1..Len(lsh.hashers) : (t - 1) \in fault
        THEN ret.out = "err" /\ ret.err = "BackendIO"
        ELSE /\ ret.out = "ok"
             /\ ret.val = UNION {IdsAt(t - 1, hash_vec_query(lsh.hashers[t], ret.arg)) :
                                    t \in 1..Len(lsh.hashers)}

\* what a caller sees of an outcome
Seen(o) == [out |-> o.out, err |-> o.err, val |-> o.val]

\* C8, as claimed: after y.load of what x.dump wrote, every query_bucket_ids
\* on y returns what it returns on x, and every store_vec on y does what it
\* does on x, whatever the fields of y that load leaves alone.
C8_LoadReproducesDump ==
    (ret.op = "load" /\ ret.out = "ok") =>
        LET x == Head(file).x
        IN  /\ \A q \in Vectors :
                  Seen(query_bucket_ids(lsh, fault, q)) = Seen(query_bucket_ids(x, fault, q))
            /\ \A v \in Vectors :
                  LET a == StoreVecOutcome(lsh, fault, v)
                      b == StoreVecOutcome(x, fault, v)
                  IN  Seen(a) = Seen(b) /\ a.lsh.hash_tables = b.lsh.hash_tables

\* C9, as claimed: whatever the workers' schedule, query_bucket_ids_batch_par
\* ends as query_bucket_ids_batch on the same index and batch does: the same
\* id sets in input order, or an error in both.
C9_ParEqualsSequential ==
    (ret.op = "query_bucket_ids_batch_par" /\ ret.out # "running") =>
        LET s == query_bucket_ids_batch(lsh, fault, ret.arg)
        IN  /\ ret.out = s.out
            /\ ret.out = "ok" => ret.val = s.val

\* C10, as claimed: update_by_idx on a ready index with a new or old vector
\* of a wrong length fails with the Dim error.
C10_UpdateDimError ==
    (ret.op = "update_by_idx" /\ Ready
        /\ (Len(ret.arg[2]) # lsh.dim \/ Len(ret.arg[3]) # lsh.dim))
    => (ret.out = "err" /\ ret.err = "Dim")

\* C11, as claimed: store_vec of a vector of length D on a MIPS index that
\* owns its backend and has a hasher with M = 0 returns the NotFitted error.
C11_NotFittedIsAnError ==
    (ret.op = "store_vec" /\ lsh.H = "MIPS" /\ lsh.hash_tables # None
        /\ Len(ret.arg) = lsh.dim
        /\ \E t \in 1..Len(lsh.hashers) : lsh.hashers[t].M = 0)
    => (ret.out = "err" /\ ret.err = "NotFitted")

\* number of positions of a perturbation vector that are not 0
Perturbed(vec) == Cardinality({p \in 1..Len(vec) : vec[p] # 0})

\* the perturbation of one index: s at position i (from 0), 0 elsewhere
Single(n, i, s) == [p \in 1..n |-> IF p = i + 1 THEN s ELSE 0]

\* C12, as claimed: step_wise_probing(K, B) returns at most B vectors, each
\* of length K.
C12_AtMostBudget ==
    ret.op = "step_wise_probing" =>
        /\ Len(ret.val) <= ret.arg[2]
        /\ \A j \in 1..Len(ret.val) : Len(ret.val[j]) = ret.arg[1]

\* C13, as claimed: for B >= 2K the first 2K vectors of step_wise_probing(K, B)
\* are the 2K single-index perturbations, each once, and every vector after
\* them perturbs two or more indices.
C13_SinglesFirst ==
    (ret.op = "step_wise_probing" /\ ret.arg[2] >= 2 * ret.arg[1]) =>
        LET n == ret.arg[1]
        IN  /\ Len(ret.val) >= 2 * n
            /\ \A i \in 0..(n - 1), s \in {-1, 1} :
                  Cardinality({j \in 1..(2 * n) : ret.val[j] = Single(n, i, s)}) = 1
            /\ \A j \in (2 * n + 1)..Len(ret.val) : Perturbed(ret.val[j]) >= 2

\* the strictly increasing k-tuples of indexes 0..2n-1
IndexTuples(n, k) ==
    {c \in [1..k -> 0..(2 * n - 1)] : \A p \in 1..(k - 1) : c[p] < c[p + 1]}

\* c comes before d in lexicographic order
LexLess(c, d) ==
    \E p \in 1..Len(c) : c[p] < d[p] /\ \A q \in 1..(p - 1) : c[q] = d[q]

Choose(n, k) == Cardinality({S \in SUBSET (1..n) : Cardinality(S) = k})

\* the budget left when stage k of step_wise_probing(n, b) starts
RECURSIVE Remaining(_, _, _)
Remaining(n, b, k) == IF k = 1 THEN b ELSE Remaining(n, b, k - 1) - 2 * Choose(n, k - 1)

\* what stage k appends: nothing unless budget is left and k <= n
Taken(n, b, k) ==
    IF ~(k <= n /\ Remaining(n, b, k) > 0) THEN 0
    ELSE LET avail == Len(step_wise_perturb(n, k))
         IN  IF Remaining(n, b, k) < avail THEN Remaining(n, b, k) ELSE avail

\* the vectors appended before stage k
RECURSIVE Before(_, _, _)
Before(n, b, k) == IF k = 1 THEN 0 ELSE Before(n, b, k - 1) + Taken(n, b, k - 1)

\* the signed shifts of an item summed per position
ShiftSum(n, item) ==
    [pos \in 1..n |->
        Cardinality({p \in 1..Len(item) : item[p] = <<pos - 1, 1>>})
        - Cardinality({p \in 1..Len(item) : item[p] = <<pos - 1, -1>>})]

C16_HashersMatchShape ==
    lsh.hash_tables # None =>
        /\ Len(lsh.hashers) = lsh.n_hash_tables
        /\ \A t \in 1..Len(lsh.hashers), v \in GoodVecs :
              Len(hash_vec_query(lsh.hashers[t], v)) = lsh.n_projections

\* C17, as claimed, for the batches of more than one vector: the channel
\* never holds every item of the batch, the consumer has applied a put before
\* the producer has hashed the last vector.
C17_QueueNeverHoldsBatch ==
    (call # None /\ Head(call).op \in BatchOps /\ Len(Head(call).vs) > 1) =>
        Len(Head(call).chan) < Len(Head(call).vs) * Len(lsh.hashers)

\* C18, as claimed: store_vecs of an empty batch on a ready index returns an
\* empty id list.
C18_EmptyBatchIsOk ==
    (ret.op = "store_vecs" /\ ret.arg = <<>> /\ Ready) =>
        (ret.out = "ok" /\ ret.val = <<>>)

====
